---------------------------- MODULE Spec2Model ----------------------------
(***************************************************************************)
(* A model of FundingArbitrageAnalyzer                                     *)
(* (src/utils/funding_arbitrage_analyzer.py): the three extraction         *)
(* operations (extract_hyperliquid_trades, extract_hyperliquid_funding,    *)
(* extract_bybit_data) and the per-instrument loop of analyze_performance. *)
(*                                                                         *)
(* Times are integers in milliseconds, as in the venue payloads.  A 'time' *)
(* column of a DataFrame is a whole number of seconds: strftime with       *)
(* '%Y-%m-%d %H:%M:%S' drops the sub-second part of the venue timestamp.   *)
(* Sizes are integers in units of 0.001, prices and fees are integers.     *)
(***************************************************************************)
EXTENDS Integers, Sequences, FiniteSets, TLC

VARIABLES
    op,               \* the operation under way
    pc,               \* its position
    start_timestamp,  \* window start, ms
    end_timestamp,    \* window end, ms
    next_start,       \* venue A: start of the next chunk
    trade_data,       \* venue A fills collected
    seen_trades,      \* venue A fill identity keys seen
    funding_data,     \* venue A funding events collected
    seen_funding,     \* venue A funding identity keys seen
    current_start,    \* venue B: start of the current chunk
    cursor,           \* venue B: page cursor ("" when None)
    symbols,          \* venue B: symbols found by the first pass
    todo,             \* venue B: symbols the for loop has not visited yet
    symbol,           \* venue B: the for loop's current symbol
    combined_data,    \* venue B records collected
    df,               \* the DataFrame the operation returns
    trace,            \* history: the requests issued, with what came back,
                      \* and the sleeps taken
    budget,           \* what the venue may still do within the bounds
    target_coins,     \* analyze_performance: the instruments asked for
    hl_trades_df,     \* venue A fills of the target instruments
    hl_funding_df,    \* venue A funding events of the target instruments
    bb_combined_df,   \* venue B records of the target instruments
    coin_index,       \* the place of the for loop in target_coins
    locals,           \* the function's local variables that outlive an iteration
    analysis_results, \* the performance records appended so far
    position_summaries, \* history: the reconstruction of each instrument analysed
    exception,        \* the exception raised to the caller ("" when none)
    run,              \* history: the first or the second call
    first             \* history: what the first call was given and gave back

apVars == <<target_coins, hl_trades_df, hl_funding_df, bb_combined_df,
            coin_index, locals, analysis_results, position_summaries,
            exception, run, first>>

-----------------------------------------------------------------------------
(* Bounds of the model. *)

\* The window starts at this minute.
StartMinute == 1
\* The window spans at most this many full chunks (plus no or one minute).
MaxFullChunks == 1
\* What the venue does over one extraction: the records it returns, the
\* non-empty page cursors it returns and the requests it fails, in total.
MaxEvents == 3

\* The significant bits a float keeps (53 in CPython).
Precision == 8

-----------------------------------------------------------------------------
(* Time. *)

MsPerSec == 1000
MsPerMinute == 60 * MsPerSec
batch_size_ms == 24 * 60 * 60 * 1000
seven_days_ms == 7 * 24 * 60 * 60 * 1000

ChunkSize(o) == IF o = "bybit" THEN seven_days_ms ELSE batch_size_ms

\* _parse_datetime_string: "%Y-%m-%d %H:%M", a whole minute; then
\* int(datetime.timestamp() * 1000).
ParseDatetime(minutes) == minutes * MsPerMinute

\* datetime.fromtimestamp(ms / 1000).strftime('%Y-%m-%d %H:%M:%S'): the
\* second the instant falls in.
FormatTime(ms) == ms \div MsPerSec

\* pd.to_datetime of a 'time' string: the instant at the start of that second.
ToDatetime(sec) == sec * MsPerSec

Min(a, b) == IF a < b THEN a ELSE b

\* The windows analyze_performance can ask for, for operation o.
Windows(o) ==
    { [start |-> ParseDatetime(StartMinute),
       end   |-> ParseDatetime(StartMinute) + k * ChunkSize(o) + e * MsPerMinute] :
         k \in 0..MaxFullChunks, e \in {0, 1} }


-----------------------------------------------------------------------------
(* The venues' side: what a response may hold. *)

SeqsUpTo(S, n) == UNION { [1..k -> S] : k \in 0..n }

\* Venue timestamps around the window: just before it, at its start, at its
\* end, half a second after its end, a second after its end.
RawTimes(s, e) == { s - 1, s, e, e + (MsPerSec \div 2), e + MsPerSec }

\* userFills records of venue A: one at each timestamp, and at the start of
\* the window a second one of the same identity key (another fee).
RawFills(s, e) ==
    { [time |-> t, coin |-> "ENA", px |-> 100, sz |-> 5, dir |-> "Open Long",
       fee |-> 1] : t \in RawTimes(s, e) }
    \cup
    { [time |-> s, coin |-> "ENA", px |-> 100, sz |-> 5, dir |-> "Open Long",
       fee |-> 2] }

\* userFunding records of venue A (the delta object flattened): one at each
\* timestamp, and at the start of the window a second one of the same
\* identity key (another rate).
RawFunding(s, e) ==
    { [time |-> t, coin |-> "ENA", szi |-> 5, usdc |-> 1, fundingRate |-> 1] :
         t \in RawTimes(s, e) }
    \cup
    { [time |-> s, coin |-> "ENA", szi |-> 5, usdc |-> 1, fundingRate |-> 2] }

\* A response of venue A: an HTTP status and, with 200, the JSON list.
HLResponses(universe) ==
    { [status_code |-> 200, batch |-> b] :
         b \in SeqsUpTo(universe, budget) }
    \cup
    { [status_code |-> 500, batch |-> <<>>] : x \in 1..Min(1, budget) }

\* History events.
Request(endpoint, sym, s, e, c, status, list, next) ==
    [ev |-> "request", endpoint |-> endpoint, symbol |-> sym, startTime |-> s,
     endTime |-> e, cursor |-> c, status |-> status, list |-> list,
     next |-> next, ms |-> 0]

Sleep(ms) ==
    [ev |-> "sleep", endpoint |-> "", symbol |-> "", startTime |-> 0,
     endTime |-> 0, cursor |-> "", status |-> "", list |-> <<>>, next |-> "",
     ms |-> ms]

Range(s) == { s[i] : i \in 1..Len(s) }

-----------------------------------------------------------------------------
(* extract_hyperliquid_trades and extract_hyperliquid_funding. *)

\* trade_id: the f-string over time, coin, px, sz, dir.
TradeId(fill) == <<fill.time, fill.coin, fill.px, fill.sz, fill.dir>>

\* funding_id: the f-string over time, coin, szi, usdc.
FundingId(fund) == <<fund.time, fund.coin, fund.szi, fund.usdc>>

\* The row appended for a fill.  venue_time is history: the time column
\* keeps the second only.
TradeRow(fill) ==
    [time |-> FormatTime(fill.time), coin |-> fill.coin, dir |-> fill.dir,
     px |-> fill.px, sz |-> fill.sz, ntl |-> fill.sz * fill.px,
     fee |-> fill.fee, venue_time |-> fill.time]

\* The row appended for a funding event.
FundingRow(fund) ==
    [time |-> FormatTime(fund.time), coin |-> fund.coin, sz |-> fund.szi,
     side |-> IF fund.szi > 0 THEN "Long" ELSE "Short", payment |-> fund.usdc,
     rate |-> fund.fundingRate, venue_time |-> fund.time]

\* A dedup that lets every fill through.
IsNewTrade_Always(fill, seen) == TRUE

\* "if trade_id not in seen_trades".
IsNewTrade(fill, seen) == TradeId(fill) \notin seen

\* "if funding_id not in seen_funding".
IsNewFunding(fund, seen) == FundingId(fund) \notin seen

\* The for loop over a batch of fills: [data, seen] after it.
RECURSIVE AddFills(_, _, _)
AddFills(batch, data, seen) ==
    IF batch = <<>> THEN [data |-> data, seen |-> seen]
    ELSE LET fill == Head(batch) IN
         IF IsNewTrade(fill, seen)
         THEN AddFills(Tail(batch), Append(data, TradeRow(fill)),
                       seen \cup {TradeId(fill)})
         ELSE AddFills(Tail(batch), data, seen)

\* The for loop over a batch of funding events.
RECURSIVE AddFunding(_, _, _)
AddFunding(batch, data, seen) ==
    IF batch = <<>> THEN [data |-> data, seen |-> seen]
    ELSE LET fund == Head(batch) IN
         IF IsNewFunding(fund, seen)
         THEN AddFunding(Tail(batch), Append(data, FundingRow(fund)),
                         seen \cup {FundingId(fund)})
         ELSE AddFunding(Tail(batch), data, seen)

\* "while next_start < end_timestamp".
HLLoopCondition == next_start < end_timestamp

\* "batch_end = min(next_start + batch_size_ms, end_timestamp)".
HLBatchEnd == Min(next_start + batch_size_ms, end_timestamp)

\* A non-200 response that raises instead (raise_for_status).
HLAfterFailure_Raise == "raised"

\* What a non-200 response does to the loop: "break".
HLAfterFailure == "hl_exit"

\* The client-side filter: (df['datetime'] >= start_dt) & (df['datetime'] <= end_dt).
InDateRange(row) ==
    /\ ToDatetime(row.time) >= start_timestamp
    /\ ToDatetime(row.time) <= end_timestamp

bbVars == <<current_start, cursor, symbols, todo, symbol, combined_data>>

\* One iteration of the while loop of extract_hyperliquid_trades.
HLTradesChunk ==
    /\ op = "hl_trades" /\ pc = "hl_loop" /\ HLLoopCondition
    /\ \E resp \in HLResponses(RawFills(start_timestamp, end_timestamp)) :
         LET req(st) == Request("userFills", "", next_start, HLBatchEnd, "", st,
                                 resp.batch, "")
             added == AddFills(resp.batch, trade_data, seen_trades)
         IN
         IF resp.status_code # 200 THEN
            /\ pc' = HLAfterFailure
            /\ trace' = Append(trace, req("http_error"))
            /\ budget' = budget - 1
            /\ UNCHANGED <<next_start, trade_data, seen_trades>>
         ELSE IF resp.batch = <<>> THEN
            /\ next_start' = HLBatchEnd + 1
            /\ trace' = Append(trace, req("ok"))
            /\ UNCHANGED <<pc, trade_data, seen_trades, budget>>
         ELSE
            /\ trade_data' = added.data
            /\ seen_trades' = added.seen
            /\ next_start' = HLBatchEnd + 1
            /\ trace' = trace \o <<req("ok"), Sleep(200)>>
            /\ budget' = budget - Len(resp.batch)
            /\ UNCHANGED pc
    /\ UNCHANGED <<op, start_timestamp, end_timestamp, funding_data,
                   seen_funding, df>>
    /\ UNCHANGED bbVars
    /\ UNCHANGED apVars

\* One iteration of the while loop of extract_hyperliquid_funding.
HLFundingChunk ==
    /\ op = "hl_funding" /\ pc = "hl_loop" /\ HLLoopCondition
    /\ \E resp \in HLResponses(RawFunding(start_timestamp, end_timestamp)) :
         LET req(st) == Request("userFunding", "", next_start, HLBatchEnd, "", st,
                                 resp.batch, "")
             added == AddFunding(resp.batch, funding_data, seen_funding)
         IN
         IF resp.status_code # 200 THEN
            /\ pc' = HLAfterFailure
            /\ trace' = Append(trace, req("http_error"))
            /\ budget' = budget - 1
            /\ UNCHANGED <<next_start, funding_data, seen_funding>>
         ELSE IF resp.batch = <<>> THEN
            /\ next_start' = HLBatchEnd + 1
            /\ trace' = Append(trace, req("ok"))
            /\ UNCHANGED <<pc, funding_data, seen_funding, budget>>
         ELSE
            /\ funding_data' = added.data
            /\ seen_funding' = added.seen
            /\ next_start' = HLBatchEnd + 1
            /\ trace' = trace \o <<req("ok"), Sleep(200)>>
            /\ budget' = budget - Len(resp.batch)
            /\ UNCHANGED pc
    /\ UNCHANGED <<op, start_timestamp, end_timestamp, trade_data,
                   seen_trades, df>>
    /\ UNCHANGED bbVars
    /\ UNCHANGED apVars

\* After the loop: the DataFrame, filtered to the date range, is returned.
HLReturn ==
    /\ op \in {"hl_trades", "hl_funding"}
    /\ pc = "hl_exit" \/ (pc = "hl_loop" /\ ~HLLoopCondition)
    /\ df' = SelectSeq(IF op = "hl_trades" THEN trade_data ELSE funding_data,
                       InDateRange)
    /\ pc' = "done"
    /\ UNCHANGED <<op, start_timestamp, end_timestamp, next_start, trade_data,
                   seen_trades, funding_data, seen_funding, trace,
                   budget>>
    /\ UNCHANGED bbVars
    /\ UNCHANGED apVars

-----------------------------------------------------------------------------
(* extract_bybit_data. *)

\* /v5/execution/list records of venue B.
RawExecutions(s, e) ==
    { [execTime |-> s, symbol |-> "ENAUSDT", execType |-> "Trade",
       execId |-> "e1", orderId |-> "o1", side |-> "Buy", execFee |-> 1],
      [execTime |-> e, symbol |-> "ENAUSDT", execType |-> "Funding",
       execId |-> "e2", orderId |-> "", side |-> "", execFee |-> 1],
      [execTime |-> e + MsPerSec, symbol |-> "ENAUSDT", execType |-> "Trade",
       execId |-> "e3", orderId |-> "o3", side |-> "Sell", execFee |-> 2],
      [execTime |-> s, symbol |-> "", execType |-> "Trade",
       execId |-> "e4", orderId |-> "o4", side |-> "Buy", execFee |-> 1] }

\* What the venue returns to a request without a symbol, read for the
\* symbols only, and to a request for a symbol.
RawAnySymbol(s, e) == { x \in RawExecutions(s, e) : x.execId \in {"e1", "e4"} }
RawOfSymbol(s, e) == { x \in RawExecutions(s, e) : x.symbol # "" }

\* /v5/position/closed-pnl records of venue B.
RawClosedPnl(s, e) ==
    { [updatedTime |-> s, symbol |-> "ENAUSDT", orderId |-> "o1", side |-> "Sell"],
      [updatedTime |-> s - 1, symbol |-> "ENAUSDT", orderId |-> "o5", side |-> "Buy"] }

\* A response of venue B: an HTTP status, the retCode of the body, the
\* result's list and its nextPageCursor ("" when absent).
BBResponses(universe) ==
    UNION { { [status_code |-> 200, retCode |-> 0, list |-> l,
               nextPageCursor |-> c] :
                 l \in SeqsUpTo(universe, budget - (IF c = "" THEN 0 ELSE 1)) } :
            c \in {""} \cup { "c1" : x \in 1..Min(1, budget) } }
    \cup
    { [status_code |-> sc, retCode |-> 10001, list |-> <<>>,
       nextPageCursor |-> ""] :
         sc \in { y \in {200, 500} : budget > 0 } }

\* How a response is logged in the history.
BBStatus(resp) ==
    IF resp.status_code # 200 THEN "http_error"
    ELSE IF resp.retCode # 0 THEN "api_error" ELSE "ok"

\* The {} that _bb_signed_request returns for a request that failed.
EmptyResult == [empty |-> TRUE, list |-> <<>>, nextPageCursor |-> ""]

\* _bb_signed_request: the result of the body, or {} on an HTTP error and on
\* a retCode other than 0.
BBSignedRequest(resp) ==
    IF resp.status_code = 200
    THEN IF resp.retCode = 0
         THEN [empty |-> FALSE, list |-> resp.list,
               nextPageCursor |-> resp.nextPageCursor]
         ELSE EmptyResult
    ELSE EmptyResult

\* The row appended for an execution: FUNDING_FEE for execType 'Funding',
\* TRADE otherwise.  (quantity, price and realizedPnl are left out: nothing
\* reads them.)  venue_time is history.
ExecutionRow(exec) ==
    IF exec.execType = "Funding"
    THEN [type |-> "FUNDING_FEE", time |-> FormatTime(exec.execTime),
          symbol |-> exec.symbol, amount |-> -exec.execFee,
          tranId |-> exec.execId, tradeId |-> "", side |-> "",
          venue_time |-> exec.execTime]
    ELSE [type |-> "TRADE", time |-> FormatTime(exec.execTime),
          symbol |-> exec.symbol,
          amount |-> IF exec.execFee < 0 THEN -exec.execFee ELSE exec.execFee,
          tranId |-> exec.execId, tradeId |-> exec.orderId,
          side |-> exec.side, venue_time |-> exec.execTime]

\* The row appended for a closed-PnL record.
ClosedPnlRow(pnl) ==
    [type |-> "COMMISSION", time |-> FormatTime(pnl.updatedTime),
     symbol |-> pnl.symbol, amount |-> 0, tranId |-> pnl.orderId,
     tradeId |-> pnl.orderId, side |-> pnl.side,
     venue_time |-> pnl.updatedTime]

\* The for loop over the executions of a page: combined_data after it.
RECURSIVE AddExecutions(_, _)
AddExecutions(list, data) ==
    IF list = <<>> THEN data
    ELSE AddExecutions(Tail(list), Append(data, ExecutionRow(Head(list))))

\* The for loop over the closed-PnL records of a page.
RECURSIVE AddClosedPnl(_, _)
AddClosedPnl(list, data) ==
    IF list = <<>> THEN data
    ELSE AddClosedPnl(Tail(list), Append(data, ClosedPnlRow(Head(list))))

\* "while current_start < end_timestamp".
BBLoopCondition == current_start < end_timestamp

\* "current_end = min(current_start + seven_days_ms, end_timestamp)".
BBCurrentEnd == Min(current_start + seven_days_ms, end_timestamp)

\* pd.DataFrame(combined_data): every row collected, in the list's order.
DataFrame(data) == data

\* df.sort_values('time'): the rows in an order of non-decreasing time; the
\* order of rows of equal time is the sort's own.
SortValues(data) ==
    { [i \in 1..Len(data) |-> data[f[i]]] :
        f \in { g \in [1..Len(data) -> 1..Len(data)] :
                  /\ \A i, j \in 1..Len(data) : i # j => g[i] # g[j]
                  /\ \A i, j \in 1..Len(data) :
                        i < j => data[g[i]].time <= data[g[j]].time } }

hlVars == <<next_start, trade_data, seen_trades, funding_data, seen_funding>>

\* The bookkeeping of one pass of a "while True" page loop, for result r:
\* break on {} and on an exhausted cursor, and then on to the next chunk
\* (after chunkSleep, when the chunk loop has one); else sleep 0.1 s and
\* stay in the chunk with the cursor set.
PageLoop(r, req, chunkSleep) ==
    IF r.empty \/ r.nextPageCursor = "" THEN
       /\ current_start' = BBCurrentEnd + 1
       /\ cursor' = ""
       /\ trace' = trace \o <<req>> \o chunkSleep
    ELSE
       /\ cursor' = r.nextPageCursor
       /\ trace' = trace \o <<req, Sleep(100)>>
       /\ UNCHANGED current_start

\* What a response costs the venue of its budget.
Spend(resp) ==
    budget - Len(resp.list) - (IF resp.nextPageCursor = "" THEN 0 ELSE 1)
           - (IF BBStatus(resp) = "ok" THEN 0 ELSE 1)

\* One pass of the page loop of the first while loop: the symbols.
BBSymbolsPage ==
    /\ op = "bybit" /\ pc = "bb_symbols" /\ BBLoopCondition
    /\ \E resp \in BBResponses(RawAnySymbol(start_timestamp, end_timestamp)) :
         LET r == BBSignedRequest(resp) IN
         /\ symbols' = symbols \cup { r.list[i].symbol : i \in 1..Len(r.list) }
         /\ PageLoop(r, Request("/v5/execution/list", "", current_start,
                                BBCurrentEnd, cursor, BBStatus(resp), r.list,
                                r.nextPageCursor), <<>>)
         /\ budget' = Spend(resp)
    /\ UNCHANGED <<op, pc, start_timestamp, end_timestamp, todo, symbol,
                   combined_data, df>>
    /\ UNCHANGED hlVars
    /\ UNCHANGED apVars

\* The first while loop is over: on to "for symbol in symbols".
BBSymbolsDone ==
    /\ op = "bybit" /\ pc = "bb_symbols" /\ ~BBLoopCondition
    /\ pc' = "bb_for"
    /\ todo' = symbols
    /\ UNCHANGED <<op, start_timestamp, end_timestamp, current_start, cursor,
                   symbols, symbol, combined_data, df, trace, budget>>
    /\ UNCHANGED hlVars
    /\ UNCHANGED apVars

\* The head of the for loop: the next symbol of the set, in the set's own
\* order; an empty symbol is skipped.
BBForSymbol ==
    /\ op = "bybit" /\ pc = "bb_for" /\ todo # {}
    /\ \E sym \in todo :
         /\ todo' = todo \ {sym}
         /\ IF sym = ""
            THEN UNCHANGED <<pc, symbol, current_start, cursor>>
            ELSE /\ pc' = "bb_trades"
                 /\ symbol' = sym
                 /\ current_start' = start_timestamp
                 /\ cursor' = ""
    /\ UNCHANGED <<op, start_timestamp, end_timestamp, symbols, combined_data,
                   df, trace, budget>>
    /\ UNCHANGED hlVars
    /\ UNCHANGED apVars

\* One pass of the page loop of a symbol's while loop: its executions.
BBTradesPage ==
    /\ op = "bybit" /\ pc = "bb_trades" /\ BBLoopCondition
    /\ \E resp \in BBResponses(RawOfSymbol(start_timestamp, end_timestamp)) :
         LET r == BBSignedRequest(resp) IN
         /\ combined_data' = AddExecutions(r.list, combined_data)
         /\ PageLoop(r, Request("/v5/execution/list", symbol, current_start,
                                BBCurrentEnd, cursor, BBStatus(resp), r.list,
                                r.nextPageCursor), <<Sleep(200)>>)
         /\ budget' = Spend(resp)
    /\ UNCHANGED <<op, pc, start_timestamp, end_timestamp, symbols, todo,
                   symbol, df>>
    /\ UNCHANGED hlVars
    /\ UNCHANGED apVars

\* A symbol's while loop is over: back to the head of the for loop.
BBTradesDone ==
    /\ op = "bybit" /\ pc = "bb_trades" /\ ~BBLoopCondition
    /\ pc' = "bb_for"
    /\ UNCHANGED <<op, start_timestamp, end_timestamp, current_start, cursor,
                   symbols, todo, symbol, combined_data, df, trace,
                   budget>>
    /\ UNCHANGED hlVars
    /\ UNCHANGED apVars

\* The for loop is over: on to the closed-PnL while loop.
BBForDone ==
    /\ op = "bybit" /\ pc = "bb_for" /\ todo = {}
    /\ pc' = "bb_pnl"
    /\ current_start' = start_timestamp
    /\ cursor' = ""
    /\ UNCHANGED <<op, start_timestamp, end_timestamp, symbols, todo, symbol,
                   combined_data, df, trace, budget>>
    /\ UNCHANGED hlVars
    /\ UNCHANGED apVars

\* One pass of the page loop of the closed-PnL while loop.
BBClosedPnlPage ==
    /\ op = "bybit" /\ pc = "bb_pnl" /\ BBLoopCondition
    /\ \E resp \in BBResponses(RawClosedPnl(start_timestamp, end_timestamp)) :
         LET r == BBSignedRequest(resp) IN
         /\ combined_data' = AddClosedPnl(r.list, combined_data)
         /\ PageLoop(r, Request("/v5/position/closed-pnl", "", current_start,
                                BBCurrentEnd, cursor, BBStatus(resp), r.list,
                                r.nextPageCursor), <<>>)
         /\ budget' = Spend(resp)
    /\ UNCHANGED <<op, pc, start_timestamp, end_timestamp, symbols, todo,
                   symbol, df>>
    /\ UNCHANGED hlVars
    /\ UNCHANGED apVars

\* After the last loop: the DataFrame, sorted by time, is returned.
BBReturn ==
    /\ op = "bybit" /\ pc = "bb_pnl" /\ ~BBLoopCondition
    /\ df' \in SortValues(DataFrame(combined_data))
    /\ pc' = "done"
    /\ UNCHANGED <<op, start_timestamp, end_timestamp, current_start, cursor,
                   symbols, todo, symbol, combined_data, trace,
                   budget>>
    /\ UNCHANGED hlVars
    /\ UNCHANGED apVars

-----------------------------------------------------------------------------
(* analyze_performance: the body of "for coin in target_coins". *)

\* abs(net_position_size) > 0.001, sizes being counted in units of 0.001.
Epsilon == 1

Abs(x) == IF x < 0 THEN -x ELSE x

\* Python floats: every sum and product is rounded to the nearest number of
\* Precision significant bits, ties to the even one.  Numbers are counted in
\* units small enough for every parsed size, price and fee to be a float.
RECURSIVE Ulp(_)
Ulp(x) == IF x < 2^Precision THEN 1 ELSE 2 * Ulp(x \div 2)

RoundFloat(x) ==
    LET a == Abs(x)
        u == Ulp(a)
        q == a \div u
        r == a % u
        m == IF 2 * r > u \/ (2 * r = u /\ q % 2 = 1)
             THEN (q + 1) * u ELSE q * u
    IN IF x < 0 THEN -m ELSE m

FloatAdd(a, b) == RoundFloat(a + b)
FloatMul(a, b) == RoundFloat(a * b)

\* The direction tags of venue A fills.
Dirs == {"Open Long", "Open Short", "Close Long", "Close Short", "Buy", ""}

\* The words among open, close, long, short, buy and sell that
\* str(dir).lower() contains.
WordsIn(dir) ==
    CASE dir = "Open Long" -> {"open", "long"}
      [] dir = "Open Short" -> {"open", "short"}
      [] dir = "Close Long" -> {"close", "long"}
      [] dir = "Close Short" -> {"close", "short"}
      [] dir = "Buy" -> {"buy"}
      [] dir = "Sell" -> {"sell"}
      [] OTHER -> {}

\* "word in str(dir).lower()", and str.contains(word, case=False).
Contains(dir, word) == word \in WordsIn(dir)

\* coin + 'USDT'.
BBSymbol(coin) ==
    CASE coin = "ENA" -> "ENAUSDT"
      [] coin = "SOL" -> "SOLUSDT"
      [] OTHER -> "USDT"

\* The rows of a DataFrame that lie in a set, in the DataFrame's order.
RECURSIVE Rows(_, _)
Rows(frame, keep) ==
    IF frame = <<>> THEN <<>>
    ELSE IF Head(frame) \in keep
         THEN <<Head(frame)>> \o Rows(Tail(frame), keep)
         ELSE Rows(Tail(frame), keep)

\* Series.sum(): the numbers added up from the first to the last.
RECURSIVE SumFrom(_, _)
SumFrom(total, numbers) ==
    IF numbers = <<>> THEN total
    ELSE SumFrom(FloatAdd(total, Head(numbers)), Tail(numbers))

SumSeq(numbers) == SumFrom(0, numbers)

SumSz(rows) == SumSeq([i \in 1..Len(rows) |-> rows[i].sz])
SumFee(rows) == SumSeq([i \in 1..Len(rows) |-> rows[i].fee])
SumPayment(rows) == SumSeq([i \in 1..Len(rows) |-> rows[i].payment])
SumAmount(rows) == SumSeq([i \in 1..Len(rows) |-> rows[i].amount])
\* (rows['sz'].abs() * rows['px']).sum().
SumNotional(rows) == SumSeq([i \in 1..Len(rows) |-> FloatMul(Abs(rows[i].sz), rows[i].px)])

\* The quotient n / d of two floats, kept as the pair: equal pairs are equal
\* quotients.  A price that is "" has den = 0.
Frac(n, d) == [num |-> n, den |-> d]
Absent == Frac(0, 0)
Whole(n) == Frac(n, 1)

\* A local variable of the function: not yet assigned, or holding rows.
Unbound == [bound |-> FALSE, rows |-> <<>>]
Bound(rows) == [bound |-> TRUE, rows |-> rows]

\* The DataFrames of one instrument: the rows of the coin, or pd.DataFrame()
\* (no rows and no columns) when the frame filtered by target is empty.
CoinHLTrades(coin) ==
    IF Len(hl_trades_df) > 0
    THEN Rows(hl_trades_df, { r \in Range(hl_trades_df) : r.coin = coin })
    ELSE <<>>

CoinHLFunding(coin) ==
    IF Len(hl_funding_df) > 0
    THEN Rows(hl_funding_df, { r \in Range(hl_funding_df) : r.coin = coin })
    ELSE <<>>

CoinBBData(coin) ==
    IF Len(bb_combined_df) > 0
    THEN [columns |-> TRUE,
          rows |-> Rows(bb_combined_df,
                        { r \in Range(bb_combined_df) : r.symbol = BBSymbol(coin) })]
    ELSE [columns |-> FALSE, rows |-> <<>>]

\* The sign a fill adds to the running size with.
SignedSize(trade) ==
    LET d == trade.dir
        long == Contains(d, "long") \/ Contains(d, "buy")
        short == Contains(d, "short") \/ Contains(d, "sell")
    IN IF Contains(d, "open")
       THEN IF long THEN trade.sz ELSE IF short THEN -trade.sz ELSE 0
       ELSE IF Contains(d, "close")
            THEN IF long THEN -trade.sz ELSE IF short THEN trade.sz ELSE 0
            ELSE 0

\* The for loop over the fills of the instrument, from the state acc.
RECURSIVE NetPosition(_, _)
NetPosition(trades, acc) ==
    IF trades = <<>> THEN acc
    ELSE LET trade == Head(trades) IN
         NetPosition(Tail(trades),
            [net_position_size |->
                 FloatAdd(acc.net_position_size, SignedSize(trade)),
             position_opened |->
                 acc.position_opened \/ Contains(trade.dir, "open"),
             position_closed |->
                 acc.position_closed
                    \/ (~Contains(trade.dir, "open")
                          /\ Contains(trade.dir, "close"))])

\* coin_hl_trades['sz'].abs().idxmax(): the first row of the largest size.
IdxMax(trades) ==
    CHOOSE i \in 1..Len(trades) :
       /\ \A j \in 1..Len(trades) : Abs(trades[j].sz) <= Abs(trades[i].sz)
       /\ \A j \in 1..(i - 1) : Abs(trades[j].sz) < Abs(trades[i].sz)

\* The side of a closed position: by the tag of its largest fill.
ClosedSide(trades) ==
    IF Contains(trades[IdxMax(trades)].dir, "long")
    THEN "Long hl (closed)" ELSE "Short hl (closed)"

\* The side inferred from funding when there is no fill: by the last row.
FundingSide(funding) ==
    IF Len(funding) > 0
    THEN IF funding[Len(funding)].sz > 0 THEN "Long hl" ELSE "Short hl"
    ELSE ""

\* Net size, status and side of the instrument.
Position(trades, funding) ==
    LET acc == NetPosition(trades, [net_position_size |-> 0,
                                    position_opened |-> FALSE,
                                    position_closed |-> FALSE])
        is_open == Abs(acc.net_position_size) > Epsilon
    IN IF Len(trades) > 0
       THEN [net_position_size |-> acc.net_position_size,
             position_opened |-> acc.position_opened,
             position_closed |-> acc.position_closed,
             position_is_open |-> is_open,
             position_side |->
                 IF is_open
                 THEN IF acc.net_position_size > 0 THEN "Long hl" ELSE "Short hl"
                 ELSE ClosedSide(trades)]
       ELSE [net_position_size |-> 0,
             position_opened |-> FALSE,
             position_closed |-> FALSE,
             position_is_open |-> TRUE,
             position_side |-> FundingSide(funding)]

\* The plain average of the prices, in place of the size-weighted one.
WeightedPrice_Unweighted(rows) ==
    IF Len(rows) > 0 /\ Abs(SumSz(rows)) > 0
    THEN Frac(SumSeq([i \in 1..Len(rows) |-> rows[i].px]), Len(rows))
    ELSE Absent

\* The size-weighted average price of rows, "" when they weigh nothing.
WeightedPrice(rows) ==
    IF Len(rows) > 0 /\ Abs(SumSz(rows)) > 0
    THEN Frac(SumNotional(rows), Abs(SumSz(rows)))
    ELSE Absent

\* The fills whose tag contains the word.
Tagged(trades, word) ==
    Rows(trades, { r \in Range(trades) : Contains(r.dir, word) })

\* open_trades after the entry price block: assigned only under its if.
OpenTrades(trades, p, L) ==
    IF p.position_opened /\ Len(trades) > 0
    THEN Bound(Tagged(trades, "open"))
    ELSE L.open_trades

\* close_trades after the exit price block: assigned only under its if.
CloseTrades(trades, p, L) ==
    IF p.position_closed /\ ~p.position_is_open /\ Len(trades) > 0
    THEN Bound(Tagged(trades, "close"))
    ELSE L.close_trades

EntryPrice(trades, p) ==
    IF p.position_opened /\ Len(trades) > 0
    THEN WeightedPrice(Tagged(trades, "open"))
    ELSE Absent

\* The exit price shown whenever there is a closing fill, whatever the status.
ExitPrice_WhateverStatus(trades, p) ==
    IF p.position_closed /\ Len(trades) > 0
    THEN WeightedPrice(Tagged(trades, "close"))
    ELSE Absent

ExitPrice(trades, p) ==
    IF p.position_closed /\ ~p.position_is_open /\ Len(trades) > 0
    THEN WeightedPrice(Tagged(trades, "close"))
    ELSE Absent

\* The venue A commissions.  With the position closed, open_trades and
\* close_trades are read whether or not this iteration assigned them: a
\* name never assigned raises UnboundLocalError.
HLCommission(trades, p, open_trades, close_trades) ==
    IF p.position_is_open
    THEN [exception |-> "",
          open |-> IF Len(trades) > 0 THEN -SumFee(trades) ELSE 0,
          close |-> 0]
    ELSE IF ~open_trades.bound \/ ~close_trades.bound
         THEN [exception |-> "UnboundLocalError", open |-> 0, close |-> 0]
         ELSE [exception |-> "",
               open |-> IF Len(open_trades.rows) > 0
                        THEN -SumFee(open_trades.rows) ELSE 0,
               close |-> IF Len(close_trades.rows) > 0
                         THEN -SumFee(close_trades.rows) ELSE 0]

\* The venue B commission taken over the records of every type.
BBCommission_EveryType(coin_bb_data) ==
    IF ~coin_bb_data.columns
    THEN [exception |-> "KeyError", open |-> 0]
    ELSE [exception |-> "",
          open |-> IF Len(coin_bb_data.rows) > 0
                   THEN -Abs(SumAmount(coin_bb_data.rows)) ELSE 0]

\* The venue B commission: coin_bb_data['type'] raises KeyError on a frame
\* without columns.
BBCommission(coin_bb_data) ==
    IF ~coin_bb_data.columns
    THEN [exception |-> "KeyError", open |-> 0]
    ELSE LET bb_trades == Rows(coin_bb_data.rows,
                               { r \in Range(coin_bb_data.rows) : r.type = "TRADE" })
         IN [exception |-> "",
             open |-> IF Len(bb_trades) > 0 THEN -Abs(SumAmount(bb_trades)) ELSE 0]

\* total_funding.
TotalFunding(funding, coin_bb_data) ==
    FloatAdd(IF Len(funding) > 0 THEN SumPayment(funding) ELSE 0,
             IF Len(coin_bb_data.rows) > 0
             THEN SumAmount(Rows(coin_bb_data.rows,
                                 { r \in Range(coin_bb_data.rows) :
                                      r.type = "FUNDING_FEE" }))
             ELSE 0)

\* The margin a percentage is taken of.
Notional(coin) == IF coin \in {"LINK", "LTC"} THEN 40 ELSE 20

\* duration_hours, as minutes / 60 (the window is on whole minutes).
DurationMinutes == (end_timestamp - start_timestamp) \div MsPerMinute

\* (pnl / notional) * 100.
Percentage(coin, pnl) == Frac(pnl * 100, Notional(coin))

\* The annualisation without its guard.
APR_Unguarded(percentage) ==
    Frac(percentage.num * 60 * (365 * 24), percentage.den * DurationMinutes)

\* (percentage / duration_hours) * (365 * 24), 0 without a duration or a
\* percentage.
APR(percentage) ==
    IF DurationMinutes > 0 /\ percentage.num # 0
    THEN Frac(percentage.num * 60 * (365 * 24), percentage.den * DurationMinutes)
    ELSE Whole(0)

\* The days computed from the rate of the funding whatever its sign.
DaysUntilCommissionPaid_AnySign(total_commission_cost, total_funding) ==
    IF total_commission_cost > 0 /\ total_funding # 0 /\ DurationMinutes > 0
    THEN Frac(total_commission_cost * DurationMinutes, total_funding * 60 * 24)
    ELSE Whole(0)

\* The days with 0 as the only fallback of a window of no duration.
DaysUntilCommissionPaid_ZeroFallback(total_commission_cost, total_funding) ==
    IF total_commission_cost > 0 /\ total_funding > 0
    THEN IF DurationMinutes > 0
         THEN Frac(total_commission_cost * DurationMinutes,
                   total_funding * 60 * 24)
         ELSE Whole(0)
    ELSE IF total_commission_cost > 0 /\ total_funding <= 0
         THEN Whole(999999)
         ELSE Whole(0)

\* days_until_commission_paid.
DaysUntilCommissionPaid(total_commission_cost, total_funding) ==
    IF total_commission_cost > 0 /\ total_funding > 0
    THEN IF DurationMinutes > 0
         THEN Frac(total_commission_cost * DurationMinutes,
                   total_funding * 60 * 24)
         ELSE IF total_funding >= total_commission_cost
              THEN Whole(0) ELSE Whole(999999)
    ELSE IF total_commission_cost > 0 /\ total_funding <= 0
         THEN Whole(999999)
         ELSE Whole(0)

\* The performance record, from the reconstruction and the totals.
Record(coin, has_trades, p, entry_price, exit_price, total_commission_open, total_commission_close, total_funding, realized_pnl) ==
    [symbol |-> coin,
     side |-> p.position_side,
     entry_price |-> entry_price,
     exit_price |-> exit_price,
     position_size |-> IF has_trades THEN Abs(p.net_position_size) ELSE 0,
     commission_open |-> total_commission_open,
     commission_close |-> total_commission_close,
     funding |-> total_funding,
     realized_pnl |-> realized_pnl,
     percentage |-> Percentage(coin, realized_pnl),
     duration_hours |-> Frac(DurationMinutes, 60),
     apr |-> APR(Percentage(coin, realized_pnl)),
     apr_excluding_commission |-> APR(Percentage(coin, total_funding)),
     days_until_commission_paid |->
         DaysUntilCommissionPaid(
             Abs(FloatAdd(total_commission_open, total_commission_close)),
             total_funding)]

\* The locals of the iteration, as the claims about it read them: the
\* reconstruction of the instrument and the commissions of each venue.
Summary(coin, p, entry_price, exit_price, hl, bb) ==
    [coin |-> coin,
     net_position_size |-> p.net_position_size,
     position_is_open |-> p.position_is_open,
     position_side |-> p.position_side,
     entry_price |-> entry_price,
     exit_price |-> exit_price,
     hl_commission_open |-> hl.open,
     hl_commission_close |-> hl.close,
     bb_commission_open |-> bb.open]

\* The iteration from the commissions on: "raise" with the exception, or
\* "append" with the performance record.
Attribute(coin, trades, funding, coin_bb_data, p, kept, hl, bb, total_funding) ==
    [outcome |-> IF hl.exception # "" \/ bb.exception # ""
                 THEN "raise" ELSE "append",
     exception |-> IF hl.exception # "" THEN hl.exception ELSE bb.exception,
     locals |-> kept,
     summary |-> Summary(coin, p, EntryPrice(trades, p), ExitPrice(trades, p),
                        hl, bb),
     record |-> Record(coin, Len(trades) > 0, p,
                       EntryPrice(trades, p), ExitPrice(trades, p),
                       FloatAdd(hl.open, bb.open), hl.close, total_funding,
                       FloatAdd(FloatAdd(FloatAdd(hl.open, bb.open), hl.close),
                                total_funding))]

\* The iteration from the entry price block on.
Reconstructed(coin, trades, funding, coin_bb_data, p, L) ==
    Attribute(coin, trades, funding, coin_bb_data, p,
              [open_trades |-> OpenTrades(trades, p, L),
               close_trades |-> CloseTrades(trades, p, L)],
              HLCommission(trades, p, OpenTrades(trades, p, L),
                           CloseTrades(trades, p, L)),
              BBCommission(coin_bb_data),
              TotalFunding(funding, coin_bb_data))

\* The iteration of an instrument with data.
Analyzed(coin, trades, funding, coin_bb_data, L) ==
    Reconstructed(coin, trades, funding, coin_bb_data,
                  Position(trades, funding), L)

\* The instrument has a fill, a funding event or a venue B record: without
\* any, the loop continues with the next instrument.
HasData(coin) ==
    \/ Len(CoinHLTrades(coin)) > 0
    \/ Len(CoinHLFunding(coin)) > 0
    \/ Len(CoinBBData(coin).rows) > 0

\* One iteration for an instrument with data, entered with the locals L:
\* "raise" with the exception, or "append" with the performance record;
\* with the locals it leaves and the reconstruction.
AnalyzeCoin(coin, L) ==
    Analyzed(coin, CoinHLTrades(coin), CoinHLFunding(coin), CoinBBData(coin), L)

\* The exception the commissions of the iteration raise, "" when none.
Raises(trades, p, coin_bb_data, L) ==
    IF HLCommission(trades, p, OpenTrades(trades, p, L),
                    CloseTrades(trades, p, L)).exception # ""
    THEN "UnboundLocalError"
    ELSE BBCommission(coin_bb_data).exception

Exception(coin, L) ==
    Raises(CoinHLTrades(coin),
           Position(CoinHLTrades(coin), CoinHLFunding(coin)),
           CoinBBData(coin), L)

-----------------------------------------------------------------------------
(* The extraction operations, each over every window. *)

vars == <<op, pc, start_timestamp, end_timestamp, next_start, trade_data,
          seen_trades, funding_data, seen_funding, current_start, cursor,
          symbols, todo, symbol, combined_data, df, trace, budget,
          target_coins, hl_trades_df, hl_funding_df, bb_combined_df,
          coin_index, locals, analysis_results, position_summaries,
          exception, run, first>>

\* The local variables before the loop, and the history before a first call.
NoLocals == [open_trades |-> Unbound, close_trades |-> Unbound]
NoCall == [pc |-> "", exception |-> "", target_coins |-> <<>>,
           analysis_results |-> <<>>, position_summaries |-> <<>>]

InitExtract ==
    /\ op \in {"hl_trades", "hl_funding", "bybit"}
    /\ \E w \in Windows(op) :
         /\ start_timestamp = w.start
         /\ end_timestamp = w.end
    /\ pc = IF op = "bybit" THEN "bb_symbols" ELSE "hl_loop"
    /\ next_start = start_timestamp
    /\ trade_data = <<>>
    /\ seen_trades = {}
    /\ funding_data = <<>>
    /\ seen_funding = {}
    /\ current_start = start_timestamp
    /\ cursor = ""
    /\ symbols = {}
    /\ todo = {}
    /\ symbol = ""
    /\ combined_data = <<>>
    /\ df = <<>>
    /\ trace = <<>>
    /\ budget = MaxEvents
    /\ target_coins = <<>>
    /\ hl_trades_df = <<>>
    /\ hl_funding_df = <<>>
    /\ bb_combined_df = <<>>
    /\ coin_index = 1
    /\ locals = NoLocals
    /\ analysis_results = <<>>
    /\ position_summaries = <<>>
    /\ exception = ""
    /\ run = 1
    /\ first = NoCall

NextExtract ==
    \/ HLTradesChunk
    \/ HLFundingChunk
    \/ HLReturn
    \/ BBSymbolsPage
    \/ BBSymbolsDone
    \/ BBForSymbol
    \/ BBTradesPage
    \/ BBTradesDone
    \/ BBForDone
    \/ BBClosedPnlPage
    \/ BBReturn

SpecExtract == InitExtract /\ [][NextExtract]_vars

-----------------------------------------------------------------------------
(* The extraction operations before a venue B that never exhausts a cursor. *)

\* One more pass of a "while True" page loop of venue B: the venue, having
\* returned what the bounds let it return, answers with an empty page and
\* one more non-empty nextPageCursor.  The result is not {} and the cursor
\* is not empty, so neither break is taken: the loop sleeps 0.1 s and stays
\* in the chunk.  (The history keeps the requests within the bounds only.)
BBEndlessPage ==
    /\ op = "bybit" /\ pc \in {"bb_symbols", "bb_trades", "bb_pnl"}
    /\ BBLoopCondition
    /\ budget = 0
    /\ cursor' = IF cursor = "c1" THEN "c2" ELSE "c1"
    /\ UNCHANGED <<op, pc, start_timestamp, end_timestamp, current_start,
                   symbols, todo, symbol, combined_data, df, trace, budget>>
    /\ UNCHANGED hlVars
    /\ UNCHANGED apVars

NextTerminate ==
    \/ HLTradesChunk
    \/ HLFundingChunk
    \/ HLReturn
    \/ BBSymbolsPage
    \/ BBSymbolsDone
    \/ BBForSymbol
    \/ BBTradesPage
    \/ BBTradesDone
    \/ BBForDone
    \/ BBClosedPnlPage
    \/ BBReturn
    \/ BBEndlessPage

\* The code is sequential and every request returns: a step that can be
\* taken is taken.
SpecTerminate == InitExtract /\ [][NextTerminate]_vars /\ WF_vars(NextTerminate)

-----------------------------------------------------------------------------
(* analyze_performance over the data of every small case. *)

\* Bounds: the fills of the instrument under analysis, in a single call, in
\* the two calls that differ in the other instruments, and in the two
\* calls that differ in the order of the fills.
MaxFills == 2
MaxIsolationFills == 1
MaxReorderFills == 3

\* The columns of an extracted row that analyze_performance reads.
Fill(coin, dir, sz, px, fee) ==
    [coin |-> coin, dir |-> dir, sz |-> sz, px |-> px, fee |-> fee]
Funding(coin, time, sz, payment) ==
    [coin |-> coin, time |-> time, sz |-> sz, payment |-> payment]
BBRecord(type, coin, amount) ==
    [type |-> type, symbol |-> BBSymbol(coin), amount |-> amount]

\* Fills of every tag of a size above the threshold, and of the opening and
\* closing tags of the size of the threshold, at prices and fees that tell
\* the fills apart.
PxOf(dir, sz) ==
    10 + (IF Contains(dir, "close") THEN 1 ELSE 0) + (IF sz = Epsilon THEN 1 ELSE 0)
FeeOf(sz) == IF sz = Epsilon THEN 1 ELSE 2
Fills(coin) ==
    { Fill(coin, dir, 5 * Epsilon, PxOf(dir, 5 * Epsilon), FeeOf(5 * Epsilon)) :
         dir \in Dirs }
    \cup
    { Fill(coin, dir, Epsilon, PxOf(dir, Epsilon), FeeOf(Epsilon)) :
         dir \in {"Open Long", "Open Short", "Close Long", "Close Short"} }

\* Fills of a size that takes every bit of a float, and of the threshold.
BigSize == 2^Precision + 2
ReorderFills(coin) ==
    { Fill(coin, dir, sz, PxOf(dir, sz), FeeOf(sz)) :
         dir \in {"Open Long", "Close Long"}, sz \in {Epsilon, BigSize} }

\* Funding events of a window of so many minutes, their 'time' column in
\* seconds: none, one, and two that the venue returned the older first, or
\* the newer first.
Fundings(coin, minutes) ==
    LET oldest == ParseDatetime(StartMinute) \div MsPerSec
        newest == oldest + minutes * 60
    IN { <<>>,
         <<Funding(coin, oldest, 5, 3)>>,
         <<Funding(coin, oldest, 5, 3), Funding(coin, newest, -5, -2)>>,
         <<Funding(coin, newest, 5, 3), Funding(coin, oldest, -5, -2)>> }

BBRecords(coin) ==
    { <<>>,
      <<BBRecord("TRADE", coin, 1), BBRecord("FUNDING_FEE", coin, 2),
        BBRecord("COMMISSION", coin, 0)>>,
      <<BBRecord("TRADE", coin, 1), BBRecord("FUNDING_FEE", coin, -4),
        BBRecord("TRADE", coin, 2)>> }

\* The rest of a call: the target list, and the records of another
\* instrument.  ENA alone; ENA after an instrument whose position is closed.
Alone == [target_coins |-> <<"ENA">>, trades |-> <<>>, bb |-> <<>>]
AfterClosed ==
    [target_coins |-> <<"SOL", "ENA">>,
     trades |-> <<Fill("SOL", "Open Long", 5, 10, 2),
                  Fill("SOL", "Close Long", 5, 11, 2)>>,
     bb |-> <<BBRecord("TRADE", "SOL", 1)>>]

Others ==
    { Alone, AfterClosed,
      [target_coins |-> <<"SOL", "ENA">>,
       trades |-> <<Fill("SOL", "Open Long", 1, 11, 1),
                    Fill("SOL", "Close Long", 1, 12, 1)>>,
       bb |-> <<>>],
      [target_coins |-> <<"ENA", "SOL">>,
       trades |-> <<Fill("SOL", "Open Long", 5, 10, 2)>>,
       bb |-> <<>>],
      [target_coins |-> <<"ENA">>,
       trades |-> <<Fill("SOL", "Open Long", 5, 10, 2)>>,
       bb |-> <<BBRecord("TRADE", "SOL", 1)>>] }

\* The window of a call lasts no time, or an hour and a half.
Durations == {0, 90}

\* frame[frame['coin'].isin(target_coins)].
IsIn(frame, coins) ==
    Rows(frame, { r \in Range(frame) : r.coin \in Range(coins) })

\* frame[frame['symbol'].isin(target_bb_symbols)].
IsInSymbols(frame, coins) ==
    Rows(frame, { r \in Range(frame) :
                     \E i \in 1..Len(coins) : r.symbol = BBSymbol(coins[i]) })

exVars == <<next_start, trade_data, seen_trades, funding_data, seen_funding,
            current_start, cursor, symbols, todo, symbol, combined_data, df,
            trace, budget>>

\* The extractions the call starts with are left out: it goes on from
\* what they returned.
NoExtraction ==
    /\ next_start = 0
    /\ trade_data = <<>>
    /\ seen_trades = {}
    /\ funding_data = <<>>
    /\ seen_funding = {}
    /\ current_start = 0
    /\ cursor = ""
    /\ symbols = {}
    /\ todo = {}
    /\ symbol = ""
    /\ combined_data = <<>>
    /\ df = <<>>
    /\ trace = <<>>
    /\ budget = 0

\* The call up to the for loop, given the frames the extractions returned.
Call(coins, trades_raw, funding_raw, bb_raw) ==
    /\ target_coins' = coins
    /\ hl_trades_df' = IsIn(trades_raw, coins)
    /\ hl_funding_df' = IsIn(funding_raw, coins)
    /\ bb_combined_df' = IsInSymbols(bb_raw, coins)
    /\ analysis_results' = <<>>
    /\ position_summaries' = <<>>
    /\ coin_index' = 1
    /\ locals' = NoLocals
    /\ exception' = ""
    /\ pc' = "ap_loop"

InitCall(coins, trades_raw, funding_raw, bb_raw, minutes) ==
    /\ op = "analyze"
    /\ start_timestamp = ParseDatetime(StartMinute)
    /\ end_timestamp = start_timestamp + minutes * MsPerMinute
    /\ target_coins = coins
    /\ hl_trades_df = IsIn(trades_raw, coins)
    /\ hl_funding_df = IsIn(funding_raw, coins)
    /\ bb_combined_df = IsInSymbols(bb_raw, coins)
    /\ analysis_results = <<>>
    /\ position_summaries = <<>>
    /\ coin_index = 1
    /\ locals = NoLocals
    /\ exception = ""
    /\ pc = "ap_loop"
    /\ run = 1
    /\ first = NoCall
    /\ NoExtraction

InLoop == op = "analyze" /\ pc = "ap_loop" /\ coin_index <= Len(target_coins)

\* An iteration for an instrument without data: continue.
AnalyzeSkip ==
    /\ InLoop
    /\ ~HasData(target_coins[coin_index])
    /\ coin_index' = coin_index + 1
    /\ UNCHANGED <<locals, analysis_results, position_summaries, exception, pc>>
    /\ UNCHANGED <<op, start_timestamp, end_timestamp, target_coins,
                   hl_trades_df, hl_funding_df, bb_combined_df, run, first>>
    /\ UNCHANGED exVars

\* An iteration that appends the performance record of its instrument.
AnalyzeAppend ==
    /\ InLoop
    /\ HasData(target_coins[coin_index])
    /\ Exception(target_coins[coin_index], locals) = ""
    /\ \E r \in {AnalyzeCoin(target_coins[coin_index], locals)} :
       /\ locals' = r.locals
       /\ analysis_results' = Append(analysis_results, r.record)
       /\ position_summaries' = Append(position_summaries, r.summary)
    /\ coin_index' = coin_index + 1
    /\ UNCHANGED <<exception, pc>>
    /\ UNCHANGED <<op, start_timestamp, end_timestamp, target_coins,
                   hl_trades_df, hl_funding_df, bb_combined_df, run, first>>
    /\ UNCHANGED exVars

\* An iteration that raises, after the reconstruction of its instrument:
\* nothing in the function catches, the call ends with the exception.
AnalyzeRaise ==
    /\ InLoop
    /\ HasData(target_coins[coin_index])
    /\ Exception(target_coins[coin_index], locals) # ""
    /\ \E r \in {AnalyzeCoin(target_coins[coin_index], locals)} :
       /\ locals' = r.locals
       /\ position_summaries' = Append(position_summaries, r.summary)
       /\ exception' = r.exception
    /\ pc' = "raised"
    /\ UNCHANGED <<analysis_results, coin_index>>
    /\ UNCHANGED <<op, start_timestamp, end_timestamp, target_coins,
                   hl_trades_df, hl_funding_df, bb_combined_df, run, first>>
    /\ UNCHANGED exVars

\* The loop is over: results_df = pd.DataFrame(analysis_results) is returned.
AnalyzeReturn ==
    /\ op = "analyze" /\ pc = "ap_loop" /\ coin_index > Len(target_coins)
    /\ pc' = "done"
    /\ UNCHANGED <<op, start_timestamp, end_timestamp, target_coins,
                   hl_trades_df, hl_funding_df, bb_combined_df, coin_index,
                   locals, analysis_results, position_summaries, exception,
                   run, first>>
    /\ UNCHANGED exVars

\* What a call leaves behind for the comparison with a second one.
Outcome ==
    [pc |-> pc, exception |-> exception, target_coins |-> target_coins,
     analysis_results |-> analysis_results,
     position_summaries |-> position_summaries]

\* A second call over the same window, with the same records of ENA, among
\* another target list and other records of the other instrument.
CallAmongOthers ==
    /\ op = "analyze" /\ pc \in {"done", "raised"} /\ run = 1
    /\ \E other \in Others :
          Call(other.target_coins,
               other.trades \o CoinHLTrades("ENA"),
               CoinHLFunding("ENA"),
               other.bb \o CoinBBData("ENA").rows)
    /\ run' = 2
    /\ first' = Outcome
    /\ UNCHANGED <<op, start_timestamp, end_timestamp>>
    /\ UNCHANGED exVars

\* The sequences that order the rows of a frame otherwise.
Reorderings(frame) ==
    { [i \in 1..Len(frame) |-> frame[f[i]]] :
         f \in { g \in [1..Len(frame) -> 1..Len(frame)] :
                    \A i, j \in 1..Len(frame) : g[i] = g[j] => i = j } }

\* A second call over the same window and records, the fills in another
\* order.
CallReordered ==
    /\ op = "analyze" /\ pc \in {"done", "raised"} /\ run = 1
    /\ \E trades \in Reorderings(hl_trades_df) :
          Call(target_coins, trades, hl_funding_df, bb_combined_df)
    /\ run' = 2
    /\ first' = Outcome
    /\ UNCHANGED <<op, start_timestamp, end_timestamp>>
    /\ UNCHANGED exVars

\* A position opened and closed in full, and one more fill whose tag holds
\* neither "open" nor "close".
RoundTripAndBuy(coin) ==
    <<Fill(coin, "Open Long", 5 * Epsilon, PxOf("Open Long", 5 * Epsilon), FeeOf(5 * Epsilon)),
      Fill(coin, "Close Long", 5 * Epsilon, PxOf("Close Long", 5 * Epsilon), FeeOf(5 * Epsilon)),
      Fill(coin, "Buy", 5 * Epsilon, PxOf("Buy", 5 * Epsilon), FeeOf(5 * Epsilon))>>

InitAnalyze ==
    \E minutes \in Durations :
    \E trades \in SeqsUpTo(Fills("ENA"), MaxFills) \cup {RoundTripAndBuy("ENA")},
       funding \in Fundings("ENA", minutes), bb \in BBRecords("ENA"),
       other \in {Alone, AfterClosed} :
       InitCall(other.target_coins, other.trades \o trades, funding,
                other.bb \o bb, minutes)

NextAnalyze ==
    \/ AnalyzeSkip
    \/ AnalyzeAppend
    \/ AnalyzeRaise
    \/ AnalyzeReturn

SpecAnalyze == InitAnalyze /\ [][NextAnalyze]_vars

InitIsolation ==
    \E minutes \in Durations :
    \E trades \in SeqsUpTo(Fills("ENA"), MaxIsolationFills),
       funding \in Fundings("ENA", minutes), bb \in BBRecords("ENA"),
       other \in Others :
       InitCall(other.target_coins, other.trades \o trades, funding,
                other.bb \o bb, minutes)

NextIsolation ==
    \/ AnalyzeSkip
    \/ AnalyzeAppend
    \/ AnalyzeRaise
    \/ AnalyzeReturn
    \/ CallAmongOthers

SpecIsolation == InitIsolation /\ [][NextIsolation]_vars

InitReorder ==
    \E trades \in SeqsUpTo(ReorderFills("ENA"), MaxReorderFills),
       bb \in BBRecords("ENA"), minutes \in Durations :
       InitCall(<<"ENA">>, trades, <<>>, bb, minutes)

NextReorder ==
    \/ AnalyzeSkip
    \/ AnalyzeAppend
    \/ AnalyzeRaise
    \/ AnalyzeReturn
    \/ CallReordered

SpecReorder == InitReorder /\ [][NextReorder]_vars

-----------------------------------------------------------------------------
(* What the extraction claims speak of. *)

Done == pc = "done"
IsHL == op \in {"hl_trades", "hl_funding"}
IsBB == op = "bybit"

IsRequest(e) == e.ev = "request"
IsFailed(e) == e.ev = "request" /\ e.status # "ok"

\* A successful request whose records the operation collects (the first
\* pass of venue B reads the symbols only).
IsCollecting(e) ==
    /\ e.ev = "request" /\ e.status = "ok"
    /\ e.endpoint = "/v5/execution/list" => e.symbol # ""

\* The row the operation makes of a raw record of a response.
RowOf(endpoint, r) ==
    CASE endpoint = "userFills" -> TradeRow(r)
      [] endpoint = "userFunding" -> FundingRow(r)
      [] endpoint = "/v5/execution/list" -> ExecutionRow(r)
      [] OTHER -> ClosedPnlRow(r)

\* The rows of every record the venue returned to a collecting request,
\* each with the place of its request in the history.
Received ==
    UNION { { [row |-> RowOf(trace[i].endpoint, trace[i].list[k]), at |-> i,
               k |-> k] : k \in 1..Len(trace[i].list) } :
            i \in { n \in 1..Len(trace) : IsCollecting(trace[n]) } }

\* The identity key of a row, on the venue's own timestamp.
KeyOf(row) ==
    CASE op = "hl_trades" -> <<row.venue_time, row.coin, row.px, row.sz, row.dir>>
      [] op = "hl_funding" -> <<row.venue_time, row.coin, row.sz, row.payment>>
      [] OTHER -> <<row>>

\* How many rows of the returned DataFrame carry the key.
Copies(key) == Cardinality({ i \in 1..Len(df) : KeyOf(df[i]) = key })

InWindow(t) == start_timestamp <= t /\ t <= end_timestamp

-----------------------------------------------------------------------------
(* C1 *)

\* C1 as stated: venue A's output holds no two rows of one identity key, and
\* a record the venue returned, once or several times, is in it exactly once.
C1_DedupExactlyOnce ==
    (Done /\ IsHL) =>
        /\ \A i, j \in 1..Len(df) : i # j => KeyOf(df[i]) # KeyOf(df[j])
        /\ \A x \in Received : Copies(KeyOf(x.row)) = 1

\* C1, amended: venue A's output holds no two rows of one identity key (the
\* key on the venue's millisecond timestamp), and a record the venue
\* returned, once or several times, is in the output exactly once when the
\* second of its timestamp lies in the date range and not at all otherwise.
C1_DedupOnceIfInRange ==
    (Done /\ IsHL) =>
        /\ \A i, j \in 1..Len(df) : i # j => KeyOf(df[i]) # KeyOf(df[j])
        /\ \A x \in Received :
              Copies(KeyOf(x.row)) = IF InDateRange(x.row) THEN 1 ELSE 0

\* A finished venue A extraction in which two chunks returned a record of
\* one identity key, which the output holds once.
C1_Witness ==
    /\ Done /\ IsHL
    /\ \E x, y \in Received :
         /\ x.at # y.at
         /\ KeyOf(x.row) = KeyOf(y.row)
         /\ Copies(KeyOf(x.row)) = 1

(* C2 *)

\* C2: every row venue A's extraction returns has a venue timestamp within
\* the window.
C2_OutputInWindow ==
    (Done /\ IsHL) => \A i \in 1..Len(df) : InWindow(df[i].venue_time)

\* A finished venue A extraction that was sent a record from outside the
\* window.
C2_Witness ==
    /\ Done /\ IsHL
    /\ \E x \in Received : ~InWindow(x.row.venue_time)

(* C3 *)

\* No single page holds a record twice.
NoRepeatWithinPage ==
    \A i \in 1..Len(trace) :
       \A k, l \in 1..Len(trace[i].list) :
          k # l => trace[i].list[k] # trace[i].list[l]

\* C3: venue B's extraction returns an execution that came on two pages, or
\* in two chunks, once.
C3_BybitDeduplicated ==
    (Done /\ IsBB /\ NoRepeatWithinPage) =>
        \A i, j \in 1..Len(df) : i # j => df[i] # df[j]

\* A finished venue B extraction to which two requests returned one record.
C3_Witness ==
    /\ Done /\ IsBB /\ NoRepeatWithinPage
    /\ \E x, y \in Received : x.at # y.at /\ x.row = y.row

(* C4 *)

\* C4: every row venue B's extraction returns has a timestamp within the
\* window.
C4_BybitInWindow ==
    (Done /\ IsBB) => \A i \in 1..Len(df) : InWindow(df[i].venue_time)

\* A finished venue B extraction that was sent a record from outside the
\* window.
C4_Witness ==
    /\ Done /\ IsBB
    /\ \E x \in Received : ~InWindow(x.row.venue_time)

(* C5 *)

AllSucceeded == \A i \in 1..Len(trace) : ~IsFailed(trace[i])

\* Some request issued asked for a range that holds t.
Covered(t) ==
    \E i \in 1..Len(trace) :
       /\ IsRequest(trace[i])
       /\ trace[i].startTime <= t /\ t <= trace[i].endTime

\* The instants that decide the coverage of the window: its two ends and
\* the millisecond after the end of each requested range.  (The first
\* instant of the window no request covers is one of these.)
Probes ==
    { t \in {start_timestamp, end_timestamp}
            \cup { trace[i].endTime + 1 : i \in 1..Len(trace) } : InWindow(t) }

\* C5: when every request succeeds, every instant of the window, its end
\* included, lies in the range of some request issued.
C5_WindowCovered ==
    (Done /\ AllSucceeded) => \A t \in Probes : Covered(t)

\* A finished extraction, all of whose requests succeeded, over a window of
\* one instant.
C5_Witness ==
    Done /\ AllSucceeded /\ start_timestamp = end_timestamp

(* C6 *)

\* The starts of the chunks of the window.
ChunkStarts ==
    { cs \in { start_timestamp + k * (ChunkSize(op) + 1) : k \in 0..MaxFullChunks + 1 } :
        cs < end_timestamp }

\* Two requests for one range of one loop (one cursor chain).
SameChunk(a, b) ==
    /\ a.endpoint = b.endpoint /\ a.symbol = b.symbol
    /\ a.startTime = b.startTime /\ a.endTime = b.endTime

\* C6: a failed request is not issued again, and every later chunk of the
\* window is still requested, in each of the three operations.
C6_FailureSkipsOneChunk ==
    Done =>
      \A i \in 1..Len(trace) :
         IsFailed(trace[i]) =>
            /\ \A j \in (i + 1)..Len(trace) :
                  IsRequest(trace[j]) =>
                     ~(SameChunk(trace[i], trace[j])
                         /\ trace[i].cursor = trace[j].cursor)
            /\ \A cs \in ChunkStarts :
                  cs > trace[i].startTime =>
                     \E j \in (i + 1)..Len(trace) :
                        /\ IsRequest(trace[j])
                        /\ trace[j].endpoint = trace[i].endpoint
                        /\ trace[j].symbol = trace[i].symbol
                        /\ trace[j].startTime = cs

\* A finished extraction one of whose requests failed on a chunk that is
\* not the last of the window.
C6_Witness ==
    /\ Done
    /\ \E i \in 1..Len(trace) :
          /\ IsFailed(trace[i])
          /\ \E cs \in ChunkStarts : cs > trace[i].startTime

(* C7 *)

-----------------------------------------------------------------------------
(* What the analysis claims speak of. *)

Analyzing == op = "analyze"
Returned == op = "analyze" /\ pc = "done"
Raised == op = "analyze" /\ pc = "raised"

\* The performance records of an instrument among the results of a call.
RecordsOf(coin, results) ==
    Rows(results, { r \in Range(results) : r.symbol = coin })

\* Two quotients are the same number, or both are "".
SameNumber(a, b) ==
    /\ (a.den = 0) = (b.den = 0)
    /\ a.num * b.den = b.num * a.den

\* C8: the loop keeps no state across instruments.  Of two calls over the
\* same window that both return and agree on the fills, funding events and
\* venue B records of ENA, the performance record of ENA is the same,
\* whatever the target list and the records of the other instrument are.
C8_NoStateAcrossInstruments ==
    (Returned /\ run = 2 /\ first.pc = "done")
       => RecordsOf("ENA", analysis_results)
            = RecordsOf("ENA", first.analysis_results)

\* C9: the pipeline never raises to its caller.  Whatever the extracted
\* fills, funding events and venue B records are, the call does not end
\* with an exception, and when it returns, every target instrument that
\* has data has its performance record.
C9_PipelineNeverRaises ==
    Analyzing =>
       /\ ~Raised
       /\ Returned =>
            \A i \in 1..Len(target_coins) :
               HasData(target_coins[i])
                  => RecordsOf(target_coins[i], analysis_results) # <<>>

\* C10: position reconstruction is order-independent.  A second call over
\* the same fills in another order reconstructs, for every instrument, the
\* same net size, the same Open/Closed status, the same entry price and the
\* same exit price as the first.
C10_ReconstructionOrderIndependent ==
    (Analyzing /\ run = 2 /\ pc \in {"done", "raised"})
       => /\ Len(position_summaries) = Len(first.position_summaries)
          /\ \A i \in 1..Len(position_summaries) :
                LET a == first.position_summaries[i]
                    b == position_summaries[i]
                IN /\ a.net_position_size = b.net_position_size
                   /\ a.position_is_open = b.position_is_open
                   /\ SameNumber(a.entry_price, b.entry_price)
                   /\ SameNumber(a.exit_price, b.exit_price)

-----------------------------------------------------------------------------
(* C11 *)

\* The sum of numbers in exact arithmetic.
RECURSIVE ExactSum(_)
ExactSum(numbers) ==
    IF numbers = <<>> THEN 0 ELSE Head(numbers) + ExactSum(Tail(numbers))

\* The sum of the sizes of the fills of the given tags.
SizeOf(trades, dirs) ==
    ExactSum([i \in 1..Len(trades) |->
                 IF trades[i].dir \in dirs THEN trades[i].sz ELSE 0])

\* The net size as stated: open-long and close-short fills add, open-short
\* and close-long fills subtract, every other fill counts for nothing.
StatedNetSize(trades) ==
    SizeOf(trades, {"Open Long", "Close Short"})
       - SizeOf(trades, {"Open Short", "Close Long"})

\* C11: for an instrument with at least one fill, the net size is the sum
\* of the sizes of its open-long and close-short fills minus the sum of the
\* sizes of its open-short and close-long fills; the position is Open
\* exactly when |net size| > 0.001, and an Open position is Long if the net
\* size is positive and Short otherwise.
C11_NetSizeAndStatus ==
    Analyzing =>
       \A i \in 1..Len(position_summaries) :
          LET s == position_summaries[i]
              trades == CoinHLTrades(s.coin)
          IN Len(trades) > 0 =>
                /\ s.net_position_size = StatedNetSize(trades)
                /\ s.position_is_open = (Abs(StatedNetSize(trades)) > Epsilon)
                /\ s.position_is_open =>
                      s.position_side = IF StatedNetSize(trades) > 0
                                        THEN "Long hl" ELSE "Short hl"

\* An instrument whose net size as stated is at the threshold has been
\* reconstructed.
C11_Witness ==
    /\ Analyzing
    /\ \E i \in 1..Len(position_summaries) :
          /\ Len(CoinHLTrades(position_summaries[i].coin)) = 3
          /\ StatedNetSize(CoinHLTrades(position_summaries[i].coin)) = Epsilon

-----------------------------------------------------------------------------
(* C12 *)

\* The fills whose tag is an opening one, and a closing one.
OpeningFills(trades) ==
    Rows(trades, { r \in Range(trades) : r.dir \in {"Open Long", "Open Short"} })
ClosingFills(trades) ==
    Rows(trades, { r \in Range(trades) : r.dir \in {"Close Long", "Close Short"} })

\* The price is the size-weighted average price of the fills: sum of
\* size x price over sum of size, in exact arithmetic.
IsWeightedAverage(price, fills) ==
    /\ price.den # 0
    /\ price.num * ExactSum([i \in 1..Len(fills) |-> fills[i].sz])
         = price.den * ExactSum([i \in 1..Len(fills) |-> fills[i].sz * fills[i].px])

\* C12: the entry price of an instrument is the size-weighted average price
\* over all its fills classified as open, and it is absent (not zero)
\* whenever the instrument has no opening fill.
C12_EntryPriceWeightedAverage ==
    Analyzing =>
       /\ \A i \in 1..Len(position_summaries) :
             LET s == position_summaries[i]
                 fills == OpeningFills(CoinHLTrades(s.coin))
             IN IF fills = <<>>
                THEN s.entry_price = Absent
                ELSE IsWeightedAverage(s.entry_price, fills)
       /\ \A i \in 1..Len(analysis_results) :
             LET r == analysis_results[i]
                 fills == OpeningFills(CoinHLTrades(r.symbol))
             IN IF fills = <<>>
                THEN r.entry_price = Absent
                ELSE IsWeightedAverage(r.entry_price, fills)

\* A record holds the entry price of two opening fills of different sizes
\* and prices.
C12_Witness ==
    /\ Analyzing
    /\ \E i \in 1..Len(analysis_results) :
          LET fills == OpeningFills(CoinHLTrades(analysis_results[i].symbol))
          IN /\ Len(fills) = 2
             /\ fills[1].sz # fills[2].sz
             /\ fills[1].px # fills[2].px
             /\ analysis_results[i].entry_price.den # 0

-----------------------------------------------------------------------------
(* C13 *)

\* C13: in every performance record an exit price is present only if the
\* position ended Closed.  With the position Open the exit price is absent
\* even if closing fills exist; with the position Closed and at least one
\* closing fill it is the size-weighted average price of the closing fills.
\* (The i-th record is of the i-th reconstructed instrument.)
C13_ExitPriceOnlyWhenClosed ==
    Analyzing =>
       \A i \in 1..Len(analysis_results) :
          LET r == analysis_results[i]
              s == position_summaries[i]
              fills == ClosingFills(CoinHLTrades(r.symbol))
          IN /\ s.coin = r.symbol
             /\ s.position_is_open => r.exit_price = Absent
             /\ (~s.position_is_open /\ fills # <<>>)
                   => IsWeightedAverage(r.exit_price, fills)

\* A call has recorded a Closed position with its exit price, and then an
\* Open position that has a closing fill (a partial close).
C13_Witness ==
    /\ Analyzing
    /\ Len(analysis_results) = 2
    /\ ~position_summaries[1].position_is_open
    /\ analysis_results[1].exit_price # Absent
    /\ position_summaries[2].position_is_open
    /\ ClosingFills(CoinHLTrades(analysis_results[2].symbol)) # <<>>
    /\ analysis_results[2].exit_price = Absent

-----------------------------------------------------------------------------
(* C14 *)

\* The sum of the fees of fills, in exact arithmetic.
FeesOf(fills) == ExactSum([i \in 1..Len(fills) |-> fills[i].fee])

-----------------------------------------------------------------------------
(* C15 *)

\* The venue B records of an instrument that are of a type.
BBRecordsOf(coin, type) ==
    Rows(bb_combined_df,
         { r \in Range(bb_combined_df) :
              r.symbol = BBSymbol(coin) /\ r.type = type })

\* C15: venue B commissions go entirely to commission-open, whatever the
\* status.  In every record commission-close is the venue A close
\* commission alone, and commission-open is the venue A open commission
\* plus a venue B part that is a cost (<= 0), of the magnitude of the sum
\* of the fees of the TRADE records of the instrument: FUNDING_FEE and
\* COMMISSION records add nothing.
C15_VenueBCommissionToOpen ==
    Analyzing =>
       \A i \in 1..Len(analysis_results) :
          LET r == analysis_results[i]
              s == position_summaries[i]
              fees == BBRecordsOf(r.symbol, "TRADE")
          IN /\ r.commission_close = s.hl_commission_close
             /\ r.commission_open = s.hl_commission_open + s.bb_commission_open
             /\ s.bb_commission_open <= 0
             /\ -s.bb_commission_open
                   = ExactSum([j \in 1..Len(fees) |-> fees[j].amount])

\* A Closed position has its record, with two TRADE records and a
\* FUNDING_FEE record of venue B.
C15_Witness ==
    /\ Analyzing
    /\ \E i \in 1..Len(analysis_results) :
          /\ ~position_summaries[i].position_is_open
          /\ Len(BBRecordsOf(analysis_results[i].symbol, "TRADE")) = 2
          /\ BBRecordsOf(analysis_results[i].symbol, "FUNDING_FEE") # <<>>
          /\ analysis_results[i].commission_close < 0

-----------------------------------------------------------------------------
(* C16 *)

\* The quotient is the number 0.
IsZero(q) == q.den # 0 /\ q.num = 0

\* A quotient in lowest terms, its divisor positive.
RECURSIVE GCD(_, _)
GCD(a, b) == IF b = 0 THEN a ELSE GCD(b, a % b)

Reduced(q) ==
    LET g == GCD(Abs(q.num), Abs(q.den))
        sign == IF q.den < 0 THEN -1 ELSE 1
    IN IF g = 0 THEN q
       ELSE Frac(sign * (q.num \div g), sign * (q.den \div g))

\* (percentage / duration-hours) x 8760, the duration being a number of
\* minutes; 0 with no duration or no percentage.
StatedAPR(apr, percentage, minutes) ==
    IF minutes > 0 /\ percentage.num # 0
    THEN /\ apr.den # 0
         /\ Reduced(apr) = Reduced(Frac(percentage.num * 60 * 8760,
                                        percentage.den * minutes))
    ELSE IsZero(apr)

\* C16: in every record APR = (percentage / duration-hours) x 8760 when
\* duration-hours > 0 and the percentage is not 0, and APR = 0 otherwise;
\* the same holds of APR-excluding-commission, with the percentage of the
\* funding total alone; and no quotient of the record has a zero divisor.
C16_APRGuarded ==
    Analyzing =>
       \A i \in 1..Len(analysis_results) :
          LET r == analysis_results[i]
              minutes == (end_timestamp - start_timestamp) \div MsPerMinute
          IN /\ StatedAPR(r.apr, r.percentage, minutes)
             /\ StatedAPR(r.apr_excluding_commission,
                          Frac(r.funding * 100, Notional(r.symbol)), minutes)
             /\ r.apr.den # 0
             /\ r.apr_excluding_commission.den # 0
             /\ r.percentage.den # 0
             /\ r.duration_hours.den # 0
             /\ r.days_until_commission_paid.den # 0

\* A window of no duration has a record with a return that is not 0, and
\* an APR of 0.
C16_Witness ==
    /\ Analyzing
    /\ end_timestamp = start_timestamp
    /\ \E i \in 1..Len(analysis_results) :
          /\ analysis_results[i].percentage.num # 0
          /\ analysis_results[i].funding # 0
          /\ IsZero(analysis_results[i].apr)

-----------------------------------------------------------------------------
(* C17 *)

\* The commission cost of a record: |commission-open + commission-close|.
CommissionCost(r) == Abs(r.commission_open + r.commission_close)

\* The window of the call, in minutes.
WindowMinutes == (end_timestamp - start_timestamp) \div MsPerMinute

\* C17: in every record, with c the commission cost and f the funding
\* total, days-until-commission-recovered is 0 when c = 0, the sentinel
\* 999999 when c > 0 and f <= 0, and (c / (f / duration-hours)) / 24 when
\* c > 0, f > 0 and duration-hours > 0; it is never negative.
C17_BreakevenDecisionTable ==
    Analyzing =>
       \A i \in 1..Len(analysis_results) :
          LET r == analysis_results[i]
              c == CommissionCost(r)
              f == r.funding
              days == r.days_until_commission_paid
          IN /\ c = 0 => IsZero(days)
             /\ (c > 0 /\ f <= 0) => days = Whole(999999)
             /\ (c > 0 /\ f > 0 /\ WindowMinutes > 0)
                   => Reduced(days) = Reduced(Frac(c * WindowMinutes, f * 60 * 24))
             /\ days.den # 0
             /\ Reduced(days).num >= 0

\* One call has a record with a commission cost above a positive funding
\* total over a window that lasts, and one with a commission cost and a
\* negative funding total.
C17_Witness ==
    /\ Analyzing
    /\ WindowMinutes > 0
    /\ Len(analysis_results) = 2
    /\ CommissionCost(analysis_results[1]) > 0
    /\ analysis_results[1].funding <= 0
    /\ CommissionCost(analysis_results[2]) > analysis_results[2].funding
    /\ analysis_results[2].funding > 0

-----------------------------------------------------------------------------
(* C18 *)

\* The record is of the degenerate case of the breakeven computation: a
\* commission cost and a positive funding total over a window that lasts
\* no time (funding-per-hour is then 0).
IsDegenerate(r) ==
    /\ CommissionCost(r) > 0
    /\ r.funding > 0
    /\ WindowMinutes = 0

-----------------------------------------------------------------------------
(* C19 *)

\* The largest fill, the first of them in input order when several share
\* the largest size.
FirstLargest(trades) ==
    LET i == CHOOSE k \in 1..Len(trades) :
                /\ \A j \in 1..Len(trades) : trades[j].sz <= trades[k].sz
                /\ \A j \in 1..(k - 1) : trades[j].sz < trades[k].sz
    IN trades[i]

\* The tags of a long direction under the classification of the running
\* size: those matching long or buy.
LongTags == {"Open Long", "Close Long", "Buy"}

\* C19: for a Closed position the side is 'Long (closed)' exactly when the
\* largest fill, the first one in input order when several share the
\* largest size, is of a long direction under the classification used for
\* the running size (tag matching long or buy), and 'Short (closed)'
\* otherwise.
C19_ClosedSideFromLargestFill ==
    Analyzing =>
       \A i \in 1..Len(position_summaries) :
          LET s == position_summaries[i]
              trades == CoinHLTrades(s.coin)
          IN (trades # <<>> /\ ~s.position_is_open) =>
                s.position_side = IF FirstLargest(trades).dir \in LongTags
                                  THEN "Long hl (closed)"
                                  ELSE "Short hl (closed)"

\* A Closed position whose largest fill is a buy has been reconstructed.
C19_Witness ==
    /\ Analyzing
    /\ \E i \in 1..Len(position_summaries) :
          LET s == position_summaries[i]
              trades == CoinHLTrades(s.coin)
          IN /\ trades # <<>>
             /\ ~s.position_is_open
             /\ FirstLargest(trades).dir = "Buy"

-----------------------------------------------------------------------------
(* C20 *)

\* The funding events of the greatest timestamp.
MostRecent(funding) ==
    { f \in Range(funding) : \A g \in Range(funding) : g.time <= f.time }

\* C20: an instrument with no fill but with funding events is reported
\* Open, with the side of the most recent funding event (one of the
\* greatest timestamp): Long if its signed size is positive, Short
\* otherwise, whatever the order of the funding events; no entry price and
\* no exit price is reported.
C20_SideFromMostRecentFunding ==
    Analyzing =>
       \A i \in 1..Len(position_summaries) :
          LET s == position_summaries[i]
              funding == CoinHLFunding(s.coin)
          IN (CoinHLTrades(s.coin) = <<>> /\ funding # <<>>) =>
                /\ s.position_is_open
                /\ \E f \in MostRecent(funding) :
                      s.position_side = IF f.sz > 0 THEN "Long hl" ELSE "Short hl"
                /\ s.entry_price = Absent
                /\ s.exit_price = Absent

\* An instrument with no fill has its record, its most recent funding
\* event not being the last row.
C20_Witness ==
    /\ Analyzing
    /\ \E i \in 1..Len(analysis_results) :
          LET funding == CoinHLFunding(analysis_results[i].symbol)
          IN /\ CoinHLTrades(analysis_results[i].symbol) = <<>>
             /\ Len(funding) = 2
             /\ funding[1].time > funding[2].time

-----------------------------------------------------------------------------
(* C21 *)

\* C21: between any two successive requests an extraction operation issues
\* to a venue, a pause occurs: in the history of every execution, a request
\* that is not the last event is followed by a sleep, also after a chunk
\* that returned an empty batch and from the last page of a chunk to the
\* first page of the next.
C21_PauseBetweenRequests ==
    (IsHL \/ IsBB) =>
       \A i \in 1..(Len(trace) - 1) :
          trace[i].ev = "request" => trace[i + 1].ev = "sleep"

\* A chunk has returned an empty batch, or its last page, and the request
\* of the next chunk has been issued.
C21_Witness ==
    /\ IsHL \/ IsBB
    /\ \E i \in 1..(Len(trace) - 1) :
          /\ trace[i].ev = "request"
          /\ trace[i].status = "ok"
          /\ trace[i].next = ""
          /\ \E j \in (i + 1)..Len(trace) :
                /\ trace[j].ev = "request"
                /\ trace[j].endpoint = trace[i].endpoint
                /\ trace[j].symbol = trace[i].symbol
                /\ trace[j].startTime > trace[i].startTime

-----------------------------------------------------------------------------
(* C22 *)

\* ceil(a / b), for b > 0.
CeilDiv(a, b) == (a + b - 1) \div b

\* The chunk starts one loop has requested: the loop of an endpoint, and of
\* a symbol in the pass of venue B over the symbols.
StartsOf(endpoint, sym) ==
    { trace[i].startTime :
         i \in { j \in 1..Len(trace) :
                    /\ trace[j].ev = "request"
                    /\ trace[j].endpoint = endpoint
                    /\ trace[j].symbol = sym } }

\* Every loop has visited at most ceil((end - start) / chunk size) chunks,
\* and a loop of venue A has issued at most one request per chunk.
ChunksBounded ==
    /\ \A i \in 1..Len(trace) :
          trace[i].ev = "request" =>
             Cardinality(StartsOf(trace[i].endpoint, trace[i].symbol))
                <= CeilDiv(end_timestamp - start_timestamp, ChunkSize(op))
    /\ IsHL => \A i, j \in 1..Len(trace) :
                  (/\ trace[i].ev = "request" /\ trace[j].ev = "request"
                   /\ trace[i].startTime = trace[j].startTime) => i = j

\* C22: every extraction operation terminates, for any window and any
\* sequence of venue responses: every loop visits at most
\* ceil((end - start) / chunk size) chunks, a venue A extraction issues at
\* most one request per chunk, and the operation eventually returns.
C22_ExtractionTerminates ==
    /\ []((IsHL \/ IsBB) => ChunksBounded)
    /\ <>Done

\* The venue has answered a page of a cursor walk with one more cursor,
\* beyond what the bounds let it return.
C22_Witness ==
    /\ IsBB
    /\ budget = 0
    /\ cursor = "c2"

-----------------------------------------------------------------------------
(* C23 *)

\* The fills whose tag holds neither "open" nor "close".
UntaggedFills(fills) ==
    Rows(fills, { f \in Range(fills) :
                     ~Contains(f.dir, "open") /\ ~Contains(f.dir, "close") })

\* C23: venue A fees are conserved by the attribution.  In every iteration
\* that appends its record, Open or Closed, the venue A parts of
\* commission-open and commission-close add up to the negated sum of the
\* fees of all venue A fills of the instrument, fills of neither tag
\* included.
C23_VenueAFeesConserved ==
    Analyzing =>
       \A i \in 1..Len(analysis_results) :
          position_summaries[i].hl_commission_open
             + position_summaries[i].hl_commission_close
                = -FeesOf(CoinHLTrades(position_summaries[i].coin))

\* The first instrument of a call has its record: its position is Closed,
\* with an opening fill and a fill of neither tag that paid a fee.
C23_Witness ==
    /\ Analyzing
    /\ Len(analysis_results) >= 1
    /\ ~position_summaries[1].position_is_open
    /\ OpeningFills(CoinHLTrades(position_summaries[1].coin)) # <<>>
    /\ FeesOf(UntaggedFills(CoinHLTrades(position_summaries[1].coin))) # 0

====
